---- MODULE Spec2Model ----
(***************************************************************************)
(* The Texas Hold'em mini-game of the portfolio site: the Poker component  *)
(* of src/src/components/SocialLink.jsx (lines 38-1287).                   *)
(*                                                                         *)
(* The component keeps its game state in React state cells.  A handler     *)
(* (opponentAction, nextPlayer, endRound, ...) is a closure of one render: *)
(* every state cell it READS has the value of that render (its snapshot),  *)
(* while every set...() it calls is queued and applied to the current      *)
(* value of the cell (setX(v) overwrites, setX(prev => f(prev)) updates).  *)
(* The model keeps both: st is the committed state, and every pending      *)
(* timer or asynchronous call carries the snapshot of the render that      *)
(* created it.                                                             *)
(***************************************************************************)
EXTENDS Integers, Sequences, FiniteSets, TLC

(***************************************************************************)
(* JavaScript values that are not integers.  Chip amounts are JS numbers;  *)
(* opponentBetsThisRound[3] is undefined after setOpponentBetsThisRound(   *)
(* [0, 0, 0]) and arithmetic on undefined yields NaN.  Both are encoded as *)
(* integers far outside the range of any chip amount.                      *)
(***************************************************************************)
NaN == -7000000
undefined == -9000000

isNum(x) == x # NaN /\ x # undefined
\* a - b, a + b on JS numbers (undefined converts to NaN)
jsSub(a, b) == IF isNum(a) /\ isNum(b) THEN a - b ELSE NaN
jsAdd(a, b) == IF isNum(a) /\ isNum(b) THEN a + b ELSE NaN
\* Math.min, Math.max: NaN if any argument is NaN
jsMin(a, b) == IF isNum(a) /\ isNum(b) THEN (IF a < b THEN a ELSE b) ELSE NaN
jsMax(a, b) == IF isNum(a) /\ isNum(b) THEN (IF a > b THEN a ELSE b) ELSE NaN
\* a < b, a > b, a >= b: false whenever an operand is NaN
jsLt(a, b) == isNum(a) /\ isNum(b) /\ a < b
jsGt(a, b) == isNum(a) /\ isNum(b) /\ a > b
jsGe(a, b) == isNum(a) /\ isNum(b) /\ a >= b
\* a === b on numbers: NaN is not equal to itself
jsEq(a, b) == a # NaN /\ b # NaN /\ a = b
\* arr[i] of a JS array (0-based index i) held as a TLA+ sequence
at(arr, i) == IF i >= 0 /\ i < Len(arr) THEN arr[i + 1] ELSE undefined
\* copy = [...arr]; copy[i] = v  (assigning past the end extends the array)
setAt(arr, i, v) ==
  IF i < Len(arr) THEN [arr EXCEPT ![i + 1] = v]
  ELSE [k \in 1..(i + 1) |-> IF k <= Len(arr) THEN arr[k]
                             ELSE IF k = i + 1 THEN v ELSE undefined]

(***************************************************************************)
(* Cards and the deck                                                      *)
(***************************************************************************)
suits == <<"S", "H", "D", "C">>
values == <<"A", "K", "Q", "J", "10", "9", "8", "7", "6", "5", "4", "3", "2">>

Card(v, s) == [suit |-> s, value |-> v]

getCardValue(card) ==
  CASE card.value = "A" -> 14 [] card.value = "K" -> 13
    [] card.value = "Q" -> 12 [] card.value = "J" -> 11
    [] card.value = "10" -> 10 [] card.value = "9" -> 9
    [] card.value = "8" -> 8 [] card.value = "7" -> 7
    [] card.value = "6" -> 6 [] card.value = "5" -> 5
    [] card.value = "4" -> 4 [] card.value = "3" -> 3
    [] card.value = "2" -> 2

(***************************************************************************)
(* Hand evaluator                                                          *)
(***************************************************************************)
RECURSIVE insertDesc(_, _)
insertDesc(sorted, v) ==
  IF sorted = <<>> THEN <<v>>
  ELSE IF v > Head(sorted) THEN <<v>> \o sorted
  ELSE <<Head(sorted)>> \o insertDesc(Tail(sorted), v)

\* arr.sort((a, b) => b - a)
RECURSIVE sortDesc(_)
sortDesc(arr) ==
  IF arr = <<>> THEN <<>>
  ELSE insertDesc(sortDesc(SubSeq(arr, 1, Len(arr) - 1)), arr[Len(arr)])

\* [...new Set(arr)]: first occurrences, in order
RECURSIVE uniqueOf(_)
uniqueOf(arr) ==
  IF arr = <<>> THEN <<>>
  ELSE LET init == uniqueOf(SubSeq(arr, 1, Len(arr) - 1))
           last == arr[Len(arr)]
       IN IF \E i \in DOMAIN init : init[i] = last THEN init
          ELSE Append(init, last)

includes(arr, v) == \E i \in DOMAIN arr : arr[i] = v

HandResult(r, n, h) == [rank |-> r, name |-> n, high |-> h]

\* the straight check of evaluate5CardHand (uniqueValues is sorted descending)
isStraight(uniqueValues) ==
  /\ Len(uniqueValues) >= 5
  /\ \/ \E i \in 1..(Len(uniqueValues) - 4) :
          uniqueValues[i] - uniqueValues[i + 4] = 4
     \/ /\ includes(uniqueValues, 14) /\ includes(uniqueValues, 2)
        /\ includes(uniqueValues, 3) /\ includes(uniqueValues, 4)
        /\ includes(uniqueValues, 5)

\* valueCounts of evaluate5CardHand
countValues(vals) ==
  [v \in {vals[i] : i \in DOMAIN vals} |->
     Cardinality({i \in DOMAIN vals : vals[i] = v})]

\* a category cascade that tests three of a kind before the full house
rankHandTripsFirst(vals, valueCounts, flush, straight) ==
  LET pairs == Cardinality({v \in DOMAIN valueCounts : valueCounts[v] = 2})
      threeKind == \E v \in DOMAIN valueCounts : valueCounts[v] = 3
      fourKind == \E v \in DOMAIN valueCounts : valueCounts[v] = 4
      high == at(vals, 0)
  IN IF straight /\ flush THEN HandResult(8, "straight flush", high)
     ELSE IF fourKind THEN HandResult(7, "four of a kind", high)
     ELSE IF threeKind THEN HandResult(3, "three of a kind", high)
     ELSE IF threeKind /\ pairs > 0 THEN HandResult(6, "full house", high)
     ELSE IF flush THEN HandResult(5, "flush", high)
     ELSE IF straight THEN HandResult(4, "straight", high)
     ELSE IF pairs = 2 THEN HandResult(2, "two pair", high)
     ELSE IF pairs = 1 THEN HandResult(1, "pair", high)
     ELSE HandResult(0, "high card", high)

\* the return statements of evaluate5CardHand
rankHand(vals, valueCounts, flush, straight) ==
  LET pairs == Cardinality({v \in DOMAIN valueCounts : valueCounts[v] = 2})
      threeKind == \E v \in DOMAIN valueCounts : valueCounts[v] = 3
      fourKind == \E v \in DOMAIN valueCounts : valueCounts[v] = 4
      high == at(vals, 0)
  IN IF straight /\ flush THEN HandResult(8, "straight flush", high)
     ELSE IF fourKind THEN HandResult(7, "four of a kind", high)
     ELSE IF threeKind /\ pairs > 0 THEN HandResult(6, "full house", high)
     ELSE IF flush THEN HandResult(5, "flush", high)
     ELSE IF straight THEN HandResult(4, "straight", high)
     ELSE IF threeKind THEN HandResult(3, "three of a kind", high)
     ELSE IF pairs = 2 THEN HandResult(2, "two pair", high)
     ELSE IF pairs = 1 THEN HandResult(1, "pair", high)
     ELSE HandResult(0, "high card", high)

evaluateSorted(hand, vals) ==
  rankHand(vals, countValues(vals),
           Cardinality({hand[i].suit : i \in DOMAIN hand}) = 1,
           isStraight(uniqueOf(vals)))

evaluate5CardHand(hand) ==
  evaluateSorted(hand, sortDesc([i \in DOMAIN hand |-> getCardValue(hand[i])]))

RECURSIVE getCombinations(_, _)
getCombinations(arr, k) ==
  IF k = 0 THEN << <<>> >>
  ELSE IF arr = <<>> THEN <<>>
  ELSE LET head == Head(arr)
           tail == Tail(arr)
           sub == getCombinations(tail, k - 1)
           withHead == [i \in DOMAIN sub |-> <<head>> \o sub[i]]
           withoutHead == getCombinations(tail, k)
       IN withHead \o withoutHead

\* a loop body that keeps the first hand of the best category
betterOfByRank(bestHand, evalResult) ==
  IF evalResult.rank > bestHand.rank THEN evalResult ELSE bestHand

\* one iteration of the for-loop of evaluateHand
betterOf(bestHand, evalResult) ==
  IF evalResult.rank > bestHand.rank THEN evalResult
  ELSE IF evalResult.rank = bestHand.rank /\ evalResult.high > bestHand.high
       THEN evalResult
  ELSE bestHand

RECURSIVE bestOfCombos(_, _)
bestOfCombos(combos, bestHand) ==
  IF combos = <<>> THEN bestHand
  ELSE bestOfCombos(Tail(combos),
                    betterOf(bestHand, evaluate5CardHand(Head(combos))))

evaluateHand(holeCards, community) ==
  LET allCards == holeCards \o community
  IN IF Len(allCards) < 5 THEN evaluate5CardHand(allCards)
     ELSE bestOfCombos(getCombinations(allCards, 5),
                       [rank |-> -1, name |-> "", high |-> undefined])

compareHands(hand1, hand2, community) ==
  LET eval1 == evaluateHand(hand1, community)
      eval2 == evaluateHand(hand2, community)
  IN IF eval1.rank > eval2.rank THEN 1
     ELSE IF eval1.rank < eval2.rank THEN -1
     ELSE IF eval1.high > eval2.high THEN 1
     ELSE IF eval1.high < eval2.high THEN -1
     ELSE 0


(***************************************************************************)
(* createDeck / shuffleDeck.  rnd[i] is the value Math.floor(Math.random() *)
(* * (i + 1)) takes in the iteration with (0-based) index i = 51 .. 1.     *)
(***************************************************************************)
orderedDeck ==
  [k \in 1..52 |-> Card(values[((k - 1) % 13) + 1], suits[((k - 1) \div 13) + 1])]

\* a loop that copies shuffled[j] to position i without swapping
RECURSIVE shuffleFromCopy(_, _, _)
shuffleFromCopy(shuffled, i, rnd) ==
  IF i <= 0 THEN shuffled
  ELSE shuffleFromCopy([shuffled EXCEPT ![i + 1] = shuffled[rnd[i] + 1]],
                       i - 1, rnd)

RECURSIVE shuffleFrom(_, _, _)
shuffleFrom(shuffled, i, rnd) ==
  IF i <= 0 THEN shuffled
  ELSE LET j == rnd[i]
       IN shuffleFrom([shuffled EXCEPT ![i + 1] = shuffled[j + 1],
                                       ![j + 1] = shuffled[i + 1]],
                      i - 1, rnd)

shuffleDeck(deck, rnd) == shuffleFrom(deck, Len(deck) - 1, rnd)

createDeck(rnd) == shuffleDeck(orderedDeck, rnd)


(***************************************************************************)
(* Bounds of the model                                                     *)
(***************************************************************************)
\* The model explores four families of runs (explore, fixed by Init):
\*  "wide"     a decision provider is configured and may fail or answer
\*             anything; at most MaxActs seat actions (human clicks, provider
\*             decisions)
\*  "deep"     a provider is configured and answers fold or call, the human
\*             folds, checks or calls; at most MaxFolds folds, any number of
\*             checks and calls
\*  "fallback" no provider is configured, the opponents play the fallback of
\*             the catch block; at most MaxDeviations human folds and raises,
\*             any number of human checks and calls
\*  "session"  a provider is configured and answers fold, the human checks or
\*             calls at most MaxClicks times: whole sessions of hands that
\*             the opponents give up
MaxActs == 7
MaxFolds == 2
MaxDeviations == 1
MaxClicks == 5
\* no hand is dealt once currentRound has this value
MaxRound == 6
\* opponents and the human are not offered a raise beyond this current bet
MaxBet == 80

\* the outcomes of Math.random() in shuffleDeck that the model draws from
Seeds ==
  { <<1, 2, 1, 2, 1, 6, 2, 6, 1, 8, 2, 6, 1, 2, 15, 8, 14, 8, 6, 1, 2, 15,
      18, 18, 23, 6, 14, 8, 6, 26, 1, 2, 2, 15, 24, 18, 37, 38, 23, 29, 14,
      8, 6, 44, 26, 1, 33, 15, 2, 14, 1>>,
    <<0, 0, 3, 3, 0, 4, 3, 0, 4, 3, 3, 3, 12, 0, 4, 11, 13, 3, 12, 0, 4, 0,
      13, 11, 11, 23, 22, 4, 3, 12, 27, 12, 28, 0, 13, 13, 25, 11, 32, 39,
      12, 23, 22, 4, 3, 13, 0, 40, 27, 41, 28>> }

(***************************************************************************)
(* State                                                                   *)
(***************************************************************************)
VARIABLES
  st,        \* the React state cells of Poker (one record)
  timers,    \* pending setTimeout callbacks, in creation order
  oa,        \* the opponentAction call in flight: <<>> or <<[idx, snap, phase,
             \* call, result]>>; result is "pending", "ai" (the provider's
             \* answer), "mock" ({...getMockResponse(), isAI: false}) or
             \* "response" ({response, isAI: false}, returned without a key)
  apiKey,    \* whether import.meta.env.VITE_GEMINI_API_KEY is set
  hiveWon,   \* localStorage 'hiveWon' written / onWin called
  explore,   \* the family of runs explored: "wide", "deep", "session", "fallback"
  acts,      \* the decisions counted against the bound of that family
  ev         \* the hand evaluator applied to given cards (SpecEval)

vars == <<st, timers, oa, apiKey, hiveWon, explore, acts, ev>>

\* useState(...) initial values
InitialState ==
  [ gameState |-> "menu",
    currentRound |-> 1,
    deck |-> <<>>,
    communityCards |-> <<>>,
    playerHand |-> <<>>,
    opponentHands |-> << <<>>, <<>>, <<>>, <<>> >>,
    showCards |-> FALSE,
    message |-> "",
    currentBet |-> 0,
    playerChips |-> 1000,
    opponentChips |-> <<1000, 1000, 1000, 1000>>,
    pot |-> 0,
    currentPlayer |-> 0,
    bettingStage |-> "pre-flop",
    playerBetThisRound |-> 0,
    opponentBetsThisRound |-> <<0, 0, 0, 0>>,
    foldedPlayers |-> <<FALSE, FALSE, FALSE, FALSE, FALSE>>,
    isOpponentThinking |-> FALSE ]

\* foldedPlayers[i] as a condition (undefined is falsy)
folded(S, i) == i >= 0 /\ i < Len(S.foldedPlayers) /\ S.foldedPlayers[i + 1]

\* foldedPlayers.filter(folded => !folded).length
activeCount(foldedPlayers) ==
  Cardinality({i \in DOMAIN foldedPlayers : ~foldedPlayers[i]})

\* a timer created by setTimeout(callback, delay) in a render with snapshot S.
\* age is a lower bound (ms) of the time since its creation; seen[j] is the
\* age, when this timer was created, of the j-th timer pending before it.
\* Kind "think" stands for the running opponentAction: its minimum thinking
\* time is a lower bound of its duration, not a callback that becomes due.
Timer(kind, S, delay, w) ==
  [kind |-> kind, snap |-> S, delay |-> delay,
   afterThinking |-> (delay >= 2000 /\ w.thinking),
   age |-> 0,
   seen |-> [j \in 1..Len(w.tm) |-> w.tm[j].age]]

\* the state under construction by a handler: w.st the state cells after the
\* updates queued so far, w.tm the pending timers, w.thinking whether an
\* opponentAction is between its decision and its final nextPlayer call
World(state, tm, thinking) == [st |-> state, tm |-> tm, thinking |-> thinking]

addTimer(w, kind, S, delay) ==
  [w EXCEPT !.tm = Append(@, Timer(kind, S, delay, w))]


(***************************************************************************)
(* Handlers.  Each takes the snapshot S of the render whose closure runs   *)
(* and the world w built so far, and returns the world after its set...()  *)
(* calls, in program order.                                                *)
(***************************************************************************)
smallBlind == 10
bigBlind == 20
startingChips == 1000
lastRound == 5

startRound(S, w, rnd) ==
  LET newDeck == createDeck(rnd)
      player == <<newDeck[52], newDeck[51]>>
      opponents == << <<newDeck[50], newDeck[49]>>, <<newDeck[48], newDeck[47]>>,
                      <<newDeck[46], newDeck[45]>>, <<newDeck[44], newDeck[43]>> >>
  IN [w EXCEPT !.st =
       [@ EXCEPT !.deck = SubSeq(newDeck, 1, 42),
                 !.playerHand = player,
                 !.opponentHands = opponents,
                 !.communityCards = <<>>,
                 !.showCards = FALSE,
                 !.message = "",
                 !.bettingStage = "pre-flop",
                 !.foldedPlayers = <<FALSE, FALSE, FALSE, FALSE, FALSE>>,
                 !.currentBet = bigBlind,
                 !.playerChips = jsSub(@, bigBlind),
                 !.opponentChips = [@ EXCEPT ![1] = jsSub(@, smallBlind),
                                             ![2] = jsSub(@, bigBlind)],
                 !.pot = smallBlind + bigBlind + bigBlind,
                 !.playerBetThisRound = bigBlind,
                 !.opponentBetsThisRound = <<smallBlind, bigBlind, 0, 0>>,
                 !.currentPlayer = 2]]

startGame(S, w, rnd) ==
  startRound(S,
    [w EXCEPT !.st = [@ EXCEPT !.gameState = "playing",
                               !.currentRound = 1,
                               !.playerChips = startingChips,
                               !.opponentChips = <<startingChips, startingChips,
                                                   startingChips, startingChips>>]],
    rnd)

\* the hole cards of seat i (0 = the human, 1..4 = opponentHands[i - 1])
seatHand(S, i) == IF i = 0 THEN S.playerHand ELSE S.opponentHands[i]

\* the seats endRound collects: the human first, then the opponents by index
activeSeats(S) == SelectSeq(<<0, 1, 2, 3, 4>>, LAMBDA i : ~folded(S, i))

\* the comparator of activePlayers.sort in endRound
sortCompare(a, b, S) == compareHands(seatHand(S, b), seatHand(S, a), S.communityCards)

RECURSIVE insertSeat(_, _, _)
insertSeat(sorted, a, S) ==
  IF sorted = <<>> THEN <<a>>
  ELSE IF sortCompare(a, Head(sorted), S) < 0 THEN <<a>> \o sorted
  ELSE <<Head(sorted)>> \o insertSeat(Tail(sorted), a, S)

\* activePlayers.sort(...): a stable sort
RECURSIVE sortSeats(_, _)
sortSeats(seats, S) ==
  IF seats = <<>> THEN <<>>
  ELSE insertSeat(sortSeats(SubSeq(seats, 1, Len(seats) - 1), S), seats[Len(seats)], S)

\* the pot of the snapshot goes to the winner; nextRound is scheduled
awardPot(S, w, winner) ==
  IF winner = 0
  THEN addTimer([w EXCEPT !.st = [@ EXCEPT !.message = "You win",
                                           !.playerChips = jsAdd(@, S.pot)]],
                "nextRound", S, 4000)
  ELSE addTimer([w EXCEPT !.st = [@ EXCEPT !.message = "Opponent wins",
                                           !.opponentChips =
                                              [@ EXCEPT ![winner] = jsAdd(@, S.pot)]]],
                "nextRound", S, 4000)

\* activePlayers.sort(...)[0] of endRound, given the seats it collected
winnerOf(activePlayers, S) == sortSeats(activePlayers, S)[1]

settle(S, w, activePlayers) ==
  IF Len(activePlayers) = 0
  THEN addTimer([w EXCEPT !.st.message = "All players folded!"], "nextRound", S, 3000)
  ELSE awardPot(S, w, winnerOf(activePlayers, S))

endRound(S, w) ==
  settle(S, [w EXCEPT !.st = [@ EXCEPT !.showCards = TRUE, !.currentPlayer = -1]],
         activeSeats(S))

\* Math.max(...allChips)
RECURSIVE maxOf(_)
maxOf(arr) == IF Len(arr) = 1 THEN arr[1] ELSE jsMax(arr[1], maxOf(Tail(arr)))

endGame(S, w) ==
  LET allChips == <<S.playerChips>> \o S.opponentChips
      maxChips == maxOf(allChips)
      playerWon == /\ jsEq(S.playerChips, maxChips)
                   /\ jsGt(S.playerChips, S.opponentChips[1])
                   /\ jsGt(S.playerChips, S.opponentChips[2])
                   /\ jsGt(S.playerChips, S.opponentChips[3])
      w1 == [w EXCEPT !.st.gameState = "gameEnd"]
  IN IF playerWon
     THEN addTimer([w1 EXCEPT !.st.message = "Game Over! You won"], "onWin", S, 2000)
     ELSE [w1 EXCEPT !.st.message = "Game Over! You finished"]

nextRound(S, w, rnd) ==
  IF S.currentRound >= lastRound THEN endGame(S, w)
  ELSE startRound(S, [w EXCEPT !.st = [@ EXCEPT !.currentRound = @ + 1, !.pot = 0]], rnd)

tryAgain(S, w) ==
  [w EXCEPT !.st = [@ EXCEPT !.gameState = "menu", !.currentRound = 1, !.message = ""]]

checkBetsEqual(S) ==
  \/ activeCount(S.foldedPlayers) <= 1
  \/ \A i \in 0..3 :
       ~folded(S, i + 1) => jsEq(at(S.opponentBetsThisRound, i), S.playerBetThisRound)

\* a stage advance that names the stage after the flop cards "turn"
nextBettingStageSkipsFlop(S, w) ==
  LET w1 == [w EXCEPT !.st = [@ EXCEPT !.currentBet = 0,
                                       !.playerBetThisRound = 0,
                                       !.opponentBetsThisRound = <<0, 0, 0>>,
                                       !.currentPlayer = 0]]
      n == Len(S.deck)
  IN IF S.bettingStage = "pre-flop"
     THEN [w1 EXCEPT !.st = [@ EXCEPT
             !.communityCards = <<S.deck[n - 1], S.deck[n - 2], S.deck[n - 3]>>,
             !.deck = SubSeq(S.deck, 1, n - 4),
             !.bettingStage = "turn"]]
     ELSE IF S.bettingStage = "flop"
     THEN [w1 EXCEPT !.st = [@ EXCEPT
             !.communityCards = Append(@, S.deck[n - 1]),
             !.deck = SubSeq(S.deck, 1, n - 2),
             !.bettingStage = "turn"]]
     ELSE IF S.bettingStage = "turn"
     THEN [w1 EXCEPT !.st = [@ EXCEPT
             !.communityCards = Append(@, S.deck[n - 1]),
             !.deck = SubSeq(S.deck, 1, n - 2),
             !.bettingStage = "river"]]
     ELSE endRound(S, w1)

nextBettingStage(S, w) ==
  LET w1 == [w EXCEPT !.st = [@ EXCEPT !.currentBet = 0,
                                       !.playerBetThisRound = 0,
                                       !.opponentBetsThisRound = <<0, 0, 0>>,
                                       !.currentPlayer = 0]]
      n == Len(S.deck)
  IN IF S.bettingStage = "pre-flop"
     THEN [w1 EXCEPT !.st = [@ EXCEPT
             !.communityCards = <<S.deck[n - 1], S.deck[n - 2], S.deck[n - 3]>>,
             !.deck = SubSeq(S.deck, 1, n - 4),
             !.bettingStage = "flop"]]
     ELSE IF S.bettingStage = "flop"
     THEN [w1 EXCEPT !.st = [@ EXCEPT
             !.communityCards = Append(@, S.deck[n - 1]),
             !.deck = SubSeq(S.deck, 1, n - 2),
             !.bettingStage = "turn"]]
     ELSE IF S.bettingStage = "turn"
     THEN [w1 EXCEPT !.st = [@ EXCEPT
             !.communityCards = Append(@, S.deck[n - 1]),
             !.deck = SubSeq(S.deck, 1, n - 2),
             !.bettingStage = "river"]]
     ELSE endRound(S, w1)

\* the while loop of nextPlayer: the first non-folded seat from next on, or 5
RECURSIVE skipFolded(_, _)
skipFolded(S, next) ==
  IF next <= 4 /\ folded(S, next) THEN skipFolded(S, next + 1) ELSE next

\* foldedPlayers.findIndex(folded => !folded)
findFirstActive(S) ==
  IF \E i \in 0..4 : ~folded(S, i)
  THEN CHOOSE i \in 0..4 : ~folded(S, i) /\ \A j \in 0..(i - 1) : folded(S, j)
  ELSE -1

setCurrentPlayer(w, p) == [w EXCEPT !.st.currentPlayer = p]

nextPlayer(S, w, lastPlayerIndex) ==
  LET next == lastPlayerIndex + 1
      skipped == skipFolded(S, next)
      firstActive == findFirstActive(S)
  IN IF activeCount(S.foldedPlayers) = 1 THEN endRound(S, w)
     ELSE IF next > 4
     THEN (IF checkBetsEqual(S) THEN nextBettingStage(S, w)
           ELSE setCurrentPlayer(w, 0))
     ELSE IF skipped > 4
     THEN (IF checkBetsEqual(S) THEN nextBettingStage(S, w)
           ELSE IF firstActive >= 0 THEN setCurrentPlayer(w, firstActive)
           ELSE endRound(S, w))
     ELSE setCurrentPlayer(w, skipped)

playerFold(S, w) ==
  nextPlayer(S, [w EXCEPT !.st.foldedPlayers = [@ EXCEPT ![1] = TRUE]], 0)

playerCall(S, w) ==
  LET toCall == jsSub(S.currentBet, S.playerBetThisRound)
  IN IF jsLt(S.playerChips, toCall) THEN w
     ELSE nextPlayer(S,
            [w EXCEPT !.st = [@ EXCEPT !.playerChips = jsSub(@, toCall),
                                       !.pot = jsAdd(@, toCall),
                                       !.playerBetThisRound = jsAdd(@, toCall)]],
            0)

playerRaise(S, w) ==
  LET raiseAmount == jsMax(S.currentBet * 2, 20)
      toCall == jsSub(raiseAmount, S.playerBetThisRound)
  IN IF jsLt(S.playerChips, toCall) THEN w
     ELSE nextPlayer(S,
            [w EXCEPT !.st = [@ EXCEPT !.currentBet = raiseAmount,
                                       !.playerChips = jsSub(@, toCall),
                                       !.pot = jsAdd(@, toCall),
                                       !.playerBetThisRound = raiseAmount,
                                       !.opponentBetsThisRound = <<0, 0, 0>>]],
            0)

canPlayerAct(S) ==
  /\ S.gameState = "playing"
  /\ S.currentPlayer = 0
  /\ ~folded(S, 0)
  /\ ~S.isOpponentThinking

\* the disabled attributes of the call and raise buttons
callDisabled(S) ==
  /\ jsGt(S.currentBet, S.playerBetThisRound)
  /\ jsLt(S.playerChips, jsSub(S.currentBet, S.playerBetThisRound))

raiseDisabled(S) ==
  jsLt(S.playerChips, jsSub(jsMax(S.currentBet * 2, 20), S.playerBetThisRound))


(***************************************************************************)
(* opponentAction, lines 689-809: the decision is applied.  action is      *)
(* result.action.toLowerCase(); "other" stands for any string that is none *)
(* of fold, call, raise, and "throw" for a result without an action string *)
(* (result.action.toLowerCase() throws, the catch block decides).  Without *)
(* an API key callLLMWithRetry returns {response, isAI}, which has no      *)
(* action, so the catch block always decides.                              *)
(***************************************************************************)
opponentDecision(S, w, idx, action) ==
  LET chips == at(S.opponentChips, idx)
      betThisRound == at(S.opponentBetsThisRound, idx)
      toCall == jsSub(S.currentBet, betThisRound)
      handEval == evaluateHand(S.opponentHands[idx + 1], S.communityCards)
      callAmount == jsMin(toCall, chips)
      raiseAmount == jsMax(S.currentBet * 2, 20)
      totalBet == jsSub(raiseAmount, betThisRound)
      actualBet == jsMin(totalBet, chips)
      newFolded == [w.st.foldedPlayers EXCEPT ![idx + 2] = TRUE]
      foldedW == [w EXCEPT !.st.foldedPlayers = newFolded]
      betAdded == [w EXCEPT !.st.opponentBetsThisRound =
                               setAt(@, idx, jsAdd(at(@, idx), callAmount))]
      paid == [betAdded EXCEPT !.st = [@ EXCEPT
                  !.opponentChips = setAt(@, idx, jsSub(at(@, idx), callAmount)),
                  !.pot = jsAdd(@, callAmount)]]
  IN CASE action = "fold" ->
            IF activeCount(newFolded) = 1
            THEN addTimer(foldedW, "endRound", S, 500)
            ELSE foldedW
       [] action = "call" ->
            IF jsGt(callAmount, 0) THEN paid ELSE betAdded
       [] action = "raise" ->
            [w EXCEPT !.st = [@ EXCEPT
               !.currentBet = raiseAmount,
               !.opponentChips = setAt(@, idx, jsSub(at(@, idx), actualBet)),
               !.pot = jsAdd(@, actualBet),
               !.playerBetThisRound = 0,
               !.opponentBetsThisRound =
                   LET newBets == setAt(@, idx, raiseAmount)
                   IN [k \in DOMAIN newBets |-> IF k - 1 = idx THEN raiseAmount ELSE 0],
               !.currentPlayer = 0,
               !.isOpponentThinking = FALSE]]
       [] action = "throw" ->
            IF jsGe(chips, toCall) /\ handEval.rank >= 1 THEN paid ELSE foldedW
       [] OTHER -> w

LLMOutcomes == {"fold", "call", "raise", "other", "throw"}

(***************************************************************************)
(* callLLMWithRetry, lines 70-185.  A call is recorded by the loop         *)
(* variable attempt, the number of fetch requests issued and the waits     *)
(* between the attempts (ms); timedOut tells that the 20000 ms timer of    *)
(* the request in flight has run controller.abort(); no request is in      *)
(* flight once callLLMWithRetry has returned.                              *)
(***************************************************************************)
retries == 3

\* without an API key the function returns before any request (lines 73-76)
noFetch == [attempt |-> 0, fetches |-> 0, backoff |-> <<>>, timedOut |-> FALSE]

\* the first pass of the loop issues the first request
firstFetch == [attempt |-> 1, fetches |-> 1, backoff |-> <<>>, timedOut |-> FALSE]

\* a loop that gives up one attempt later
lastAttemptLate(call) == call.attempt = retries + 1

\* the catch block of the loop at the last attempt: return the mock response
lastAttempt(call) == call.attempt = retries

\* the catch block of the loop at an earlier attempt: wait 1000 * attempt ms,
\* then the next pass issues the next request
retryAfterError(call) ==
  [attempt |-> call.attempt + 1,
   fetches |-> call.fetches + 1,
   backoff |-> Append(call.backoff, 1000 * call.attempt),
   timedOut |-> FALSE]

\* setTimeout(() => controller.abort(), 20000)
abortDelay == 20000

\* controller.abort(): the signal is a property of the JSON body (line 147),
\* not an option of fetch, so the request in flight is not affected
abort(call) == [call EXCEPT !.timedOut = TRUE]

\* OPPONENT_PERSONALITIES[opponentIndex].traits
traits ==
  << {"aggressive", "confident", "bluffing", "competitive"},
     {"cautious", "analytical", "strategic", "polite"},
     {"unpredictable", "bold", "friendly", "chaotic"},
     {"balanced", "observant", "adaptive", "professional"} >>

\* the actions getMockResponse can return (lower case), over the outcomes of
\* its Math.random() calls
getMockResponse(tr, handEval, stage, community) ==
  IF handEval.rank >= 4
  THEN (IF "cautious" \in tr THEN {"call"} ELSE {"raise"})
  ELSE IF handEval.rank >= 2
  THEN (IF stage = "river"
        THEN (IF "aggressive" \in tr THEN {"raise"} ELSE {"call"})
        ELSE (IF "cautious" \in tr THEN {"call"} ELSE {"raise", "call"}))
  ELSE IF handEval.rank = 1
  THEN (IF Len(community) >= 3 THEN {"fold"} ELSE {})
       \cup (IF "cautious" \in tr THEN {"fold"} ELSE {"call"})
  ELSE IF jsGe(handEval.high, 13)
  THEN (IF "aggressive" \in tr THEN {"call", "fold"} ELSE {"fold"})
  ELSE (IF "unpredictable" \in tr \/ "aggressive" \in tr THEN {"raise"} ELSE {})
       \cup (IF "unpredictable" \in tr THEN {"call", "fold"} ELSE {"fold"})

\* the mock response for the opponentAction call that started in snapshot S
mockActions(S, idx) ==
  getMockResponse(traits[idx + 1],
                  evaluateHand(S.opponentHands[idx + 1], S.communityCards),
                  S.bettingStage, S.communityCards)

(***************************************************************************)
(* Rendering: the turn management effect (lines 341-350) re-runs when      *)
(* currentPlayer or gameState changed; its cleanup clears its timer.       *)
(***************************************************************************)
isEffect(t) == t.kind = "effect"
notEffect(t) == t.kind # "effect"

\* clearTimeout / a fired timer: timer i leaves the pending timers
without(tm, i) ==
  SubSeq(tm, 1, i - 1)
  \o [k \in 1..(Len(tm) - i) |->
       [tm[i + k] EXCEPT !.seen = SubSeq(@, 1, i - 1) \o SubSeq(@, i + 1, Len(@))]]

\* the cleanup of the effect: clearTimeout(timer)
RECURSIVE dropEffects(_)
dropEffects(tm) ==
  IF \E i \in DOMAIN tm : isEffect(tm[i])
  THEN dropEffects(without(tm, CHOOSE i \in DOMAIN tm : isEffect(tm[i])))
  ELSE tm

afterRender(old, w) ==
  LET new == w.st
      kept == dropEffects(w.tm)
  IN IF new.currentPlayer = old.currentPlayer /\ new.gameState = old.gameState
     THEN w.tm
     ELSE IF new.gameState # "playing" \/ new.currentPlayer = 0 \/ new.isOpponentThinking
     THEN kept
     ELSE Append(kept, Timer("effect", new, 1500, [w EXCEPT !.tm = kept]))

\* At least d ms have passed since timer i was created; no timer created
\* before it can still be pending once its own delay has passed.
notOverdue(tm, i, d) ==
  \A j \in 1..(i - 1) : tm[j].kind # "think" => tm[i].seen[j] + d < tm[j].delay

\* the ages of the timers created before timer i, d ms after its creation
elapse(tm, i, d) ==
  [j \in DOMAIN tm |->
     IF j < i /\ tm[i].seen[j] + d > tm[j].age
     THEN [tm[j] EXCEPT !.age = tm[i].seen[j] + d]
     ELSE tm[j]]

\* A timer cannot fire before an earlier timer that is due at the same time
\* or before, nor (afterThinking) before the end of the at most 2000 ms
\* thinking time of the opponentAction during which it was created.
canFire(tm, i) ==
  /\ ~tm[i].afterThinking
  /\ notOverdue(tm, i, tm[i].delay)

\* the pending timers once timer i has fired
fired(tm, i) == without(elapse(tm, i, tm[i].delay), i)

\* the running opponentAction among the timers
thinkIndex(tm) == CHOOSE i \in DOMAIN tm : tm[i].kind = "think"

\* the time the retry loop has waited so far
RECURSIVE waited(_)
waited(backoff) == IF backoff = <<>> THEN 0 ELSE Head(backoff) + waited(Tail(backoff))

inThinking == oa # <<>> /\ oa[1].phase = "think"

\* bestHand before the loop of evaluateHand ({ rank: -1 })
noHand == [rank |-> -1, name |-> "", high |-> undefined]

\* the evaluator's inputs and results; idle while the table is modelled
EvalIdle ==
  [hand1 |-> <<>>, hand2 |-> <<>>, community |-> <<>>, eval1 |-> noHand,
   eval2 |-> noHand, cmp |-> undefined, phase |-> "idle", reorders |-> 0]

Init ==
  /\ st = InitialState
  /\ timers = <<>>
  /\ oa = <<>>
  /\ apiKey \in BOOLEAN
  /\ hiveWon = FALSE
  /\ explore \in (IF apiKey THEN {"wide", "deep", "session"} ELSE {"fallback"})
  /\ acts = 0
  /\ ev = EvalIdle

\* whether an action is among those the family explores, and what it costs
allowed(action) ==
  CASE explore = "wide" -> acts < MaxActs
    [] explore = "deep" -> \/ action = "call"
                           \/ action = "fold" /\ acts < MaxFolds
    [] explore = "fallback" -> action = "call" \/ acts < MaxDeviations
    [] explore = "session" -> action = "call" /\ acts < MaxClicks

\* whether the provider's answer is among those the family explores
answered(action) ==
  IF explore = "session" THEN action = "fold" ELSE allowed(action)

cost(action) ==
  IF explore = "wide" \/ explore = "session" \/ action # "call" THEN 1 ELSE 0

commit(w) ==
  /\ st' = w.st
  /\ timers' = afterRender(st, w)

StartGame ==
  /\ st.gameState = "menu"
  /\ \E rnd \in Seeds : commit(startGame(st, World(st, timers, inThinking), rnd))
  /\ UNCHANGED <<oa, apiKey, hiveWon, explore, ev, acts>>

PlayerFold ==
  /\ canPlayerAct(st)
  /\ allowed("fold")
  /\ commit(playerFold(st, World(st, timers, inThinking)))
  /\ acts' = acts + cost("fold")
  /\ UNCHANGED <<oa, apiKey, hiveWon, explore, ev>>

PlayerCall ==
  /\ canPlayerAct(st)
  /\ ~callDisabled(st)
  /\ allowed("call")
  /\ commit(playerCall(st, World(st, timers, inThinking)))
  /\ acts' = acts + cost("call")
  /\ UNCHANGED <<oa, apiKey, hiveWon, explore, ev>>

PlayerRaise ==
  /\ canPlayerAct(st)
  /\ ~raiseDisabled(st)
  /\ allowed("raise")
  /\ st.currentBet * 2 <= MaxBet
  /\ commit(playerRaise(st, World(st, timers, inThinking)))
  /\ acts' = acts + cost("raise")
  /\ UNCHANGED <<oa, apiKey, hiveWon, explore, ev>>

\* the effect's timer fires: opponentAction(currentPlayer - 1), lines 641-688
OpponentActionBegin ==
  \E i \in DOMAIN timers :
    /\ isEffect(timers[i])
    /\ canFire(timers, i)
    /\ oa = <<>>
    /\ LET S == timers[i].snap
           idx == S.currentPlayer - 1
           w == World(st, fired(timers, i), FALSE)
           thinking == addTimer([w EXCEPT !.st.isOpponentThinking = TRUE],
                                "think", S, 2000)
       IN IF idx >= 0 /\ folded(S, idx + 1)
          THEN /\ commit(nextPlayer(S, w, idx + 1))
               /\ UNCHANGED <<oa, acts>>
          ELSE IF idx < 0
          THEN \* evaluateHand(undefined, ...) throws before any update
               /\ timers' = w.tm
               /\ UNCHANGED <<st, oa, acts>>
          ELSE IF apiKey
          THEN /\ commit(thinking)
               /\ oa' = <<[idx |-> idx, snap |-> S, phase |-> "await",
                            call |-> firstFetch, result |-> "pending"]>>
               /\ UNCHANGED acts
          ELSE \* no network call: the catch block decides in the same task
               /\ commit(opponentDecision(S, thinking, idx, "throw"))
               /\ oa' = <<[idx |-> idx, snap |-> S, phase |-> "think",
                            call |-> noFetch, result |-> "response"]>>
               /\ UNCHANGED acts
    /\ UNCHANGED <<apiKey, hiveWon, explore, ev>>

\* the provider's result arrives and is applied, lines 688-809
OpponentDecides(action) ==
  /\ oa # <<>>
  /\ oa[1].phase = "await"
  /\ answered(action)
  /\ action = "raise" => oa[1].snap.currentBet * 2 <= MaxBet
  /\ notOverdue(timers, thinkIndex(timers), waited(oa[1].call.backoff) + 500)
  /\ LET p == thinkIndex(timers)
         tm == elapse(timers, p, waited(oa[1].call.backoff) + 500)
         w == World(st, IF action = "raise" THEN without(tm, p) ELSE tm, FALSE)
     IN commit(opponentDecision(oa[1].snap, w, oa[1].idx, action))
  /\ oa' = IF action = "raise" THEN <<>>
           ELSE <<[oa[1] EXCEPT !.phase = "think", !.result = "ai",
                                !.call.timedOut = FALSE]>>
  /\ acts' = IF explore = "session" THEN acts ELSE acts + cost(action)
  /\ UNCHANGED <<apiKey, hiveWon, explore, ev>>

OpponentActionDecide == \E action \in LLMOutcomes : OpponentDecides(action)

\* the request fails (transport error, API error or empty response): the
\* loop retries, or at the last attempt returns the mock response, which is
\* applied as a provider's answer is
ProviderFails ==
  /\ oa # <<>>
  /\ oa[1].phase = "await"
  /\ explore = "wide"
  /\ IF lastAttempt(oa[1].call)
     THEN \E action \in mockActions(oa[1].snap, oa[1].idx) :
            /\ answered(action)
            /\ action = "raise" => oa[1].snap.currentBet * 2 <= MaxBet
            /\ notOverdue(timers, thinkIndex(timers), waited(oa[1].call.backoff) + 500)
            /\ LET p == thinkIndex(timers)
                   tm == elapse(timers, p, waited(oa[1].call.backoff) + 500)
                   w == World(st, IF action = "raise" THEN without(tm, p) ELSE tm, FALSE)
               IN commit(opponentDecision(oa[1].snap, w, oa[1].idx, action))
            /\ oa' = IF action = "raise" THEN <<>>
                     ELSE <<[oa[1] EXCEPT !.phase = "think", !.result = "mock",
                                          !.call.timedOut = FALSE]>>
            /\ acts' = IF explore = "session" THEN acts ELSE acts + cost(action)
     ELSE /\ oa' = <<[oa[1] EXCEPT !.call = retryAfterError(@)]>>
          /\ notOverdue(timers, thinkIndex(timers),
                        waited(retryAfterError(oa[1].call).backoff))
          /\ timers' = elapse(timers, thinkIndex(timers),
                              waited(retryAfterError(oa[1].call).backoff))
          /\ UNCHANGED <<st, acts>>
  /\ UNCHANGED <<apiKey, hiveWon, explore, ev>>

\* the provider has not answered for 20000 ms: the abort timer of the request
\* in flight fires
AbortTimer ==
  /\ oa # <<>>
  /\ oa[1].phase = "await"
  /\ explore = "wide"
  /\ ~oa[1].call.timedOut
  /\ notOverdue(timers, thinkIndex(timers), waited(oa[1].call.backoff) + abortDelay)
  /\ timers' = elapse(timers, thinkIndex(timers), waited(oa[1].call.backoff) + abortDelay)
  /\ oa' = <<[oa[1] EXCEPT !.call = abort(@)]>>
  /\ UNCHANGED <<st, apiKey, hiveWon, explore, ev, acts>>

\* the minimum thinking time is over, lines 811-820
OpponentActionEnd ==
  /\ inThinking
  /\ notOverdue(timers, thinkIndex(timers), 2000)
  /\ LET ended == fired(timers, thinkIndex(timers))
         released == [i \in DOMAIN ended |-> [ended[i] EXCEPT !.afterThinking = FALSE]]
         w == World([st EXCEPT !.isOpponentThinking = FALSE], released, FALSE)
     IN commit(nextPlayer(oa[1].snap, w, oa[1].idx + 1))
  /\ oa' = <<>>
  /\ UNCHANGED <<apiKey, hiveWon, explore, ev, acts>>

\* setTimeout(() => endRound(), 500) of the fold branch fires
EndRoundTimer ==
  \E i \in DOMAIN timers :
    /\ timers[i].kind = "endRound"
    /\ canFire(timers, i)
    /\ commit(endRound(timers[i].snap, World(st, fired(timers, i), inThinking)))
    /\ UNCHANGED <<oa, apiKey, hiveWon, explore, ev, acts>>

\* setTimeout(() => nextRound(), 4000 or 3000) of endRound fires
NextRoundTimer ==
  \E i \in DOMAIN timers :
    /\ timers[i].kind = "nextRound"
    /\ canFire(timers, i)
    /\ timers[i].snap.currentRound >= lastRound \/ st.currentRound < MaxRound
    /\ \E rnd \in Seeds :
         commit(nextRound(timers[i].snap, World(st, fired(timers, i), inThinking), rnd))
    /\ UNCHANGED <<oa, apiKey, hiveWon, explore, ev, acts>>

\* setTimeout(() => { localStorage.setItem('hiveWon', 'true'); onWin() }, 2000)
OnWinTimer ==
  \E i \in DOMAIN timers :
    /\ timers[i].kind = "onWin"
    /\ canFire(timers, i)
    /\ timers' = fired(timers, i)
    /\ hiveWon' = TRUE
    /\ UNCHANGED <<st, oa, apiKey, explore, ev, acts>>

TryAgain ==
  /\ st.gameState = "gameEnd"
  /\ commit(tryAgain(st, World(st, timers, inThinking)))
  /\ UNCHANGED <<oa, apiKey, hiveWon, explore, ev, acts>>

Next ==
  \/ StartGame
  \/ PlayerFold
  \/ PlayerCall
  \/ PlayerRaise
  \/ OpponentActionBegin
  \/ OpponentActionDecide
  \/ ProviderFails
  \/ AbortTimer
  \/ OpponentActionEnd
  \/ EndRoundTimer
  \/ NextRoundTimer
  \/ OnWinTimer
  \/ TryAgain

Spec == Init /\ [][Next]_vars


(***************************************************************************)
(* The hand evaluator on its own: evaluateHand and compareHands applied to *)
(* cards drawn from bounded sets, in the order given or reordered.         *)
(***************************************************************************)
\* how many times the cards of an input are reordered before evaluation
MaxReorders == 1

\* the cards the first 5-card hand is drawn from (every 5 of these 10)
Universe5 ==
  << Card("A", "S"), Card("2", "S"), Card("3", "S"), Card("4", "S"),
     Card("5", "S"), Card("6", "S"), Card("5", "H"), Card("5", "D"),
     Card("5", "C"), Card("6", "H") >>

Hands5 ==
  { [k \in 1..5 |-> Universe5[f[k]]] :
      f \in {g \in [1..5 -> 1..Len(Universe5)] : \A k \in 1..4 : g[k] < g[k + 1]} }

\* one example hand per category, and straights of several heights
ExampleHands ==
  { << Card("K", "H"), Card("Q", "H"), Card("J", "H"), Card("10", "H"), Card("9", "H") >>,
    << Card("9", "S"), Card("9", "H"), Card("9", "D"), Card("9", "C"), Card("K", "D") >>,
    << Card("J", "S"), Card("J", "H"), Card("J", "D"), Card("8", "C"), Card("8", "D") >>,
    << Card("K", "D"), Card("J", "D"), Card("9", "D"), Card("7", "D"), Card("3", "D") >>,
    << Card("A", "D"), Card("K", "C"), Card("Q", "D"), Card("J", "C"), Card("10", "D") >>,
    << Card("10", "C"), Card("9", "D"), Card("8", "C"), Card("7", "D"), Card("6", "C") >>,
    << Card("6", "D"), Card("5", "D"), Card("4", "H"), Card("3", "C"), Card("2", "D") >>,
    << Card("8", "S"), Card("8", "H"), Card("8", "D"), Card("K", "C"), Card("2", "D") >>,
    << Card("10", "S"), Card("10", "D"), Card("7", "H"), Card("7", "C"), Card("A", "C") >>,
    << Card("Q", "D"), Card("Q", "C"), Card("9", "S"), Card("7", "H"), Card("3", "D") >>,
    << Card("K", "C"), Card("J", "D"), Card("9", "S"), Card("7", "H"), Card("3", "C") >> }

\* the cards hole cards are drawn from (every two disjoint pairs of these)
HoleCards ==
  << Card("K", "S"), Card("K", "H"), Card("Q", "S"), Card("Q", "H"),
     Card("A", "D"), Card("7", "C") >>

Holes ==
  { <<HoleCards[p[1]], HoleCards[p[2]]>> :
      p \in {q \in (DOMAIN HoleCards) \X (DOMAIN HoleCards) : q[1] < q[2]} }

\* boards; a community is the first 0, 3, 4 or 5 cards of one of them
Boards ==
  { << Card("A", "C"), Card("7", "D"), Card("4", "H"), Card("2", "D"), Card("9", "H") >>,
    << Card("J", "D"), Card("4", "H"), Card("2", "D"), Card("9", "H"), Card("5", "C") >>,
    << Card("Q", "C"), Card("Q", "D"), Card("3", "S"), Card("8", "H"), Card("2", "C") >>,
    << Card("K", "D"), Card("Q", "C"), Card("8", "S"), Card("3", "H"), Card("2", "C") >> }

Communities == { SubSeq(b, 1, n) : b \in Boards, n \in {0, 3, 4, 5} }

EvalInput(h1, h2, c) ==
  [hand1 |-> h1, hand2 |-> h2, community |-> c, eval1 |-> noHand,
   eval2 |-> noHand, cmp |-> undefined, phase |-> "input", reorders |-> 0]

disjointHands(h1, h2) == \A i \in DOMAIN h1, j \in DOMAIN h2 : h1[i] # h2[j]

EvalInputs ==
  { EvalInput(h1, h2, <<>>) : h1 \in Hands5, h2 \in ExampleHands }
  \cup { EvalInput(h[1], h[2], c) :
           h \in {q \in Holes \X Holes : disjointHands(q[1], q[2])},
           c \in Communities }

InitEval ==
  /\ st = InitialState
  /\ timers = <<>>
  /\ oa = <<>>
  /\ apiKey = FALSE
  /\ hiveWon = FALSE
  /\ explore = "fallback"
  /\ acts = 0
  /\ ev \in EvalInputs

\* the same cards given in another order
Reorderings == {"reverse", "rotate", "swapEnds"}

reordered(all, how) ==
  [i \in DOMAIN all |->
     CASE how = "reverse" -> all[Len(all) + 1 - i]
       [] how = "rotate" -> all[(i % Len(all)) + 1]
       [] how = "swapEnds" -> IF i = 1 THEN all[Len(all)]
                              ELSE IF i = Len(all) THEN all[1] ELSE all[i]]

\* hand1's cards and the community cards are handed over in another order
Reorder ==
  /\ ev.phase = "input"
  /\ ev.reorders < MaxReorders
  /\ \E how \in Reorderings :
       ev' = [ev EXCEPT
                !.hand1 = SubSeq(reordered(ev.hand1 \o ev.community, how),
                                 1, Len(ev.hand1)),
                !.community = SubSeq(reordered(ev.hand1 \o ev.community, how),
                                     Len(ev.hand1) + 1,
                                     Len(ev.hand1) + Len(ev.community)),
                !.reorders = ev.reorders + 1]
  /\ UNCHANGED <<st, timers, oa, apiKey, hiveWon, explore, acts>>

\* evaluateHand(hand, communityCards) of both hands
EvaluateHands ==
  /\ ev.phase = "input"
  /\ ev' = [ev EXCEPT !.eval1 = evaluateHand(ev.hand1, ev.community),
                      !.eval2 = evaluateHand(ev.hand2, ev.community),
                      !.phase = "evaluated"]
  /\ UNCHANGED <<st, timers, oa, apiKey, hiveWon, explore, acts>>

\* compareHands(hand1, hand2, communityCards)
CompareHands ==
  /\ ev.phase = "evaluated"
  /\ ev' = [ev EXCEPT !.cmp = compareHands(ev.hand1, ev.hand2, ev.community),
                      !.phase = "compared"]
  /\ UNCHANGED <<st, timers, oa, apiKey, hiveWon, explore, acts>>

NextEval ==
  \/ Reorder
  \/ EvaluateHands
  \/ CompareHands

SpecEval == InitEval /\ [][NextEval]_vars


(***************************************************************************)
(* Notions the claims are stated in                                        *)
(***************************************************************************)
\* a hand is being played: blinds are posted and endRound has not settled it
handInProgress == st.gameState = "playing" /\ ~st.showCards

sessionChips == 5 * startingChips

\* playerChips + sum(opponentChips) + pot
chipsInPlay(S) ==
  jsAdd(jsAdd(jsAdd(S.playerChips, S.pot),
              jsAdd(at(S.opponentChips, 0), at(S.opponentChips, 1))),
        jsAdd(at(S.opponentChips, 2), at(S.opponentChips, 3)))

\* C1: chip conservation. While a hand is in progress the stacks of the five
\* seats and the pot add up to the 5000 chips the session started with.
C1_ChipConservation == handInProgress => chipsInPlay(st) = sessionChips


\* the committed-this-stage amount of seat i (0 = the human)
stageBet(S, i) ==
  IF i = 0 THEN S.playerBetThisRound ELSE at(S.opponentBetsThisRound, i - 1)

\* the chip stack of seat i
stack(S, i) == IF i = 0 THEN S.playerChips ELSE at(S.opponentChips, i - 1)

Seats == 0..4
activeSet(S) == {i \in Seats : ~folded(S, i)}

\* something is scheduled that continues the hand: a timer of the effect, of
\* the fold branch or of endRound, or an opponentAction in flight
continuationPending ==
  \/ oa # <<>>
  \/ \E i \in DOMAIN timers : timers[i].kind \in {"effect", "endRound", "nextRound"}

\* C2: the betting state machine is never blocked. While a hand is in
\* progress either the human can act or a continuation is pending; otherwise
\* no step of the hand can ever be taken again and it is never settled.
C2_NeverBlocked == handInProgress => (canPlayerAct(st) \/ continuationPending)

\* the one seat left when all others have folded
lastSeat(S) == CHOOSE i \in Seats : ~folded(S, i)

\* C3: once all seats but one have folded in a hand in progress, no further
\* betting turn is taken (no fold, no bet, no change of the pot), no further
\* community card is dealt, and the step that settles the hand adds the
\* entire pot to the stack of the seat left and changes no other stack.
C3_LastSeatTakesPot ==
  [][ (handInProgress /\ activeCount(st.foldedPlayers) = 1) =>
        /\ st'.communityCards = st.communityCards
        /\ st'.foldedPlayers = st.foldedPlayers
        /\ st'.pot = st.pot
        /\ st'.currentBet = st.currentBet
        /\ \A i \in Seats : stageBet(st', i) = stageBet(st, i)
        /\ \A i \in Seats :
             stack(st', i) = IF st'.showCards /\ i = lastSeat(st)
                             THEN jsAdd(stack(st, i), st.pot)
                             ELSE stack(st, i) ]_vars

\* the non-folded seats have committed the same amount this stage (a seat
\* whose amount is not a number is left out of the comparison)
betsEqual(S) ==
  \A i, j \in activeSet(S) :
     isNum(stageBet(S, i)) /\ isNum(stageBet(S, j))
       => stageBet(S, i) = stageBet(S, j)

\* a step completes the stage: the stage advances, or the river's betting
\* ends in the showdown between the seats still in the hand
stageCompletes ==
  /\ handInProgress
  /\ \/ /\ st'.bettingStage # st.bettingStage
        /\ st'.bettingStage # "pre-flop"
     \/ /\ st.bettingStage = "river"
        /\ st'.showCards
        /\ activeCount(st.foldedPlayers) >= 2

\* C4: a stage is completed only in a state in which all non-folded seats
\* have committed equal amounts this stage.
C4_CompleteOnlyWhenEqual == [][ stageCompletes => betsEqual(st) ]_vars

\* the hand is waiting for the seat currentPlayer designates
acceptingActions ==
  /\ handInProgress
  /\ oa = <<>>
  /\ ~st.isOpponentThinking
  /\ st.currentPlayer \in Seats

\* C5: while a hand is accepting actions the turn is never on a folded seat.
C5_TurnOnActiveSeat == acceptingActions => ~folded(st, st.currentPlayer)

\* the seats that are paid by a step, and what they are paid
paidSeats == {i \in Seats : stack(st', i) # stack(st, i)}

\* seat i's best hand is not beaten by a non-folded seat, and every
\* non-folded seat before it in evaluation order has a strictly worse hand
bestAtShowdown(S, i) ==
  /\ ~folded(S, i)
  /\ \A j \in activeSet(S) :
       compareHands(seatHand(S, j), seatHand(S, i), S.communityCards) <= 0
  /\ \A j \in activeSet(S) :
       j < i => compareHands(seatHand(S, j), seatHand(S, i), S.communityCards) < 0

\* a step ends the river's betting with two or more seats still in the hand
showdown ==
  /\ handInProgress
  /\ st.bettingStage = "river"
  /\ Len(st.communityCards) = 5
  /\ activeCount(st.foldedPlayers) >= 2
  /\ st'.showCards

\* C6: at showdown the entire pot goes to exactly one seat, the non-folded
\* seat with the best hand, the first such seat in evaluation order on ties.
C6_ShowdownWinner ==
  [][ showdown =>
        \E i \in Seats :
          /\ paidSeats = {i}
          /\ stack(st', i) = jsAdd(stack(st, i), st.pot)
          /\ bestAtShowdown(st, i) ]_vars


(***************************************************************************)
(* The evaluator's claims.  The notions below are those of the rules of    *)
(* poker, defined on sets of cards without reference to the evaluator.     *)
(***************************************************************************)
cardsIn(hand) == {hand[i] : i \in DOMAIN hand}
ranksOf(H) == {getCardValue(c) : c \in H}
copies(H, v) == Cardinality({c \in H : getCardValue(c) = v})
sameSuit(H) == \A c, d \in H : c.suit = d.suit
isWheel(H) == ranksOf(H) = {14, 2, 3, 4, 5}
consecutive(H) ==
  /\ Cardinality(ranksOf(H)) = 5
  /\ isWheel(H) \/ \A v, w \in ranksOf(H) : v - w <= 4

\* the category of five cards: 8 straight flush ... 0 high card
category(H) ==
  IF consecutive(H) /\ sameSuit(H) THEN 8
  ELSE IF \E v \in ranksOf(H) : copies(H, v) = 4 THEN 7
  ELSE IF Cardinality(ranksOf(H)) = 2 THEN 6
  ELSE IF sameSuit(H) THEN 5
  ELSE IF consecutive(H) THEN 4
  ELSE IF \E v \in ranksOf(H) : copies(H, v) = 3 THEN 3
  ELSE IF Cardinality(ranksOf(H)) = 3 THEN 2
  ELSE IF Cardinality(ranksOf(H)) = 4 THEN 1
  ELSE 0

categoryName ==
  [c \in 0..8 |->
     CASE c = 8 -> "straight flush" [] c = 7 -> "four of a kind"
       [] c = 6 -> "full house" [] c = 5 -> "flush" [] c = 4 -> "straight"
       [] c = 3 -> "three of a kind" [] c = 2 -> "two pair"
       [] c = 1 -> "pair" [] c = 0 -> "high card"]

sgn(x) == IF x > 0 THEN 1 ELSE IF x < 0 THEN -1 ELSE 0

\* two 5-card hands have been compared directly
comparedFive ==
  /\ ev.phase = "compared"
  /\ Len(ev.hand1) = 5 /\ Len(ev.hand2) = 5 /\ ev.community = <<>>

\* C7: the nine categories are totally ordered. Each 5-card hand is
\* classified by evaluate5CardHand into its category, and of two 5-card hands
\* of different categories compareHands declares the one of the higher
\* category the winner, whatever the ranks of the cards.
C7_CategoryOrder ==
  comparedFive =>
    /\ ev.eval1.rank = category(cardsIn(ev.hand1))
    /\ ev.eval1.name = categoryName[category(cardsIn(ev.hand1))]
    /\ ev.eval2.rank = category(cardsIn(ev.hand2))
    /\ ev.eval2.name = categoryName[category(cardsIn(ev.hand2))]
    /\ category(cardsIn(ev.hand1)) # category(cardsIn(ev.hand2)) =>
         ev.cmp = sgn(category(cardsIn(ev.hand1)) - category(cardsIn(ev.hand2)))

\* a flush of low cards has been compared with a straight of high cards
C7_Witness ==
  /\ comparedFive
  /\ category(cardsIn(ev.hand1)) = 5
  /\ category(cardsIn(ev.hand2)) = 4
  /\ \A v \in ranksOf(cardsIn(ev.hand1)) \ {14} : v < 10
  /\ \A v \in ranksOf(cardsIn(ev.hand2)) : v >= 10
  /\ ev.cmp = 1

\* the cards at the positions I of all, in the order of all
fiveOf(all, I) ==
  [k \in 1..5 |-> all[CHOOSE i \in I : Cardinality({j \in I : j < i}) = k - 1]]

\* evaluate5CardHand of every 5-card subset
subsetResults(all) ==
  { evaluate5CardHand(fiveOf(all, I)) :
      I \in {J \in SUBSET (DOMAIN all) : Cardinality(J) = 5} }

\* r is at most b in the ordering category first, then tiebreak value
atMost(r, b) == r.rank < b.rank \/ (r.rank = b.rank /\ r.high <= b.high)

\* the position of a card in a new deck (suit by suit, Ace to 2)
deckIndex(c) ==
  13 * ((CHOOSE k \in DOMAIN suits : suits[k] = c.suit) - 1) + 15 - getCardValue(c)

\* the cards of all in the order of a new deck
deckOrder(all) ==
  [k \in DOMAIN all |->
     CHOOSE c \in cardsIn(all) :
       Cardinality({d \in cardsIn(all) : deckIndex(d) < deckIndex(c)}) = k - 1]

\* result is the maximum of results, the evaluation of all in deck order,
\* and for five cards their evaluation
bestOfAll(result, all, results) ==
  /\ result \in results
  /\ \A r \in results : atMost(r, result)
  /\ result = evaluateHand(deckOrder(all), <<>>)
  /\ Len(all) = 5 => result = evaluate5CardHand(all)

\* C8: for 5, 6 or 7 cards evaluateHand returns the maximum of
\* evaluate5CardHand over all 5-card subsets (category first, then tiebreak
\* value), for exactly 5 cards evaluate5CardHand of them, and the same result
\* in whatever order the cards are given.
C8_BestOfSubsets ==
  ev.phase = "evaluated" =>
    /\ Len(ev.hand1 \o ev.community) >= 5 =>
         bestOfAll(ev.eval1, ev.hand1 \o ev.community,
                   subsetResults(ev.hand1 \o ev.community))
    /\ Len(ev.hand2 \o ev.community) >= 5 =>
         bestOfAll(ev.eval2, ev.hand2 \o ev.community,
                   subsetResults(ev.hand2 \o ev.community))

\* seven reordered cards whose subsets differ in category and, within the
\* best category, in tiebreak value
C8_Witness ==
  /\ ev.phase = "evaluated"
  /\ ev.reorders > 0
  /\ Len(ev.hand1 \o ev.community) = 7
  /\ ev.hand1 \o ev.community # deckOrder(ev.hand1 \o ev.community)
  /\ \E r \in subsetResults(ev.hand1 \o ev.community) : r.rank < ev.eval1.rank
  /\ \E r \in subsetResults(ev.hand1 \o ev.community) :
       r.rank = ev.eval1.rank /\ r.high < ev.eval1.high

\* C9: the wheel (A,2,3,4,5 of mixed suits) is a straight whose high card is
\* 5: it loses to every other straight in compareHands.
C9_WheelIsFiveHigh ==
  ( /\ comparedFive
    /\ isWheel(cardsIn(ev.hand1))
    /\ category(cardsIn(ev.hand1)) = 4
    /\ category(cardsIn(ev.hand2)) = 4
    /\ ~isWheel(cardsIn(ev.hand2)) ) =>
      /\ ev.eval1.rank = 4
      /\ ev.eval1.high = 5
      /\ ev.cmp = -1

\* a card's weight in its hand: cards of a rank held more often come first
weight(H, c) == copies(H, getCardValue(c)) * 15 + getCardValue(c)

\* the ranks of five cards, those forming the category first, then the
\* kickers, highest first, read as a number in base 15
tiebreak5(hand, w) ==
  (w[1] % 15) * 50625 + (w[2] % 15) * 3375 + (w[3] % 15) * 225
    + (w[4] % 15) * 15 + (w[5] % 15)

strength5(hand) ==
  category(cardsIn(hand)) * 759375
    + tiebreak5(hand, sortDesc([i \in DOMAIN hand |-> weight(cardsIn(hand), hand[i])]))

\* the strength of the best 5-card hand among the cards of all
strengthOf(all) ==
  CHOOSE x \in {strength5(fiveOf(all, I)) :
                  I \in {J \in SUBSET (DOMAIN all) : Cardinality(J) = 5}} :
    \A y \in {strength5(fiveOf(all, I)) :
                I \in {J \in SUBSET (DOMAIN all) : Cardinality(J) = 5}} : y <= x

\* two seats' hole cards have been compared on a board, and both best hands
\* are of the same category made of cards of equal rank
sameCategoryShowdown ==
  /\ ev.phase = "compared"
  /\ Len(ev.hand1) = 2 /\ Len(ev.hand2) = 2 /\ Len(ev.community) >= 3
  /\ ev.eval1.rank = ev.eval2.rank
  /\ ev.eval1.rank \in {1, 2, 3, 6, 7}

\* C10: within one category the winner is decided by the ranks of the cards
\* forming the category and only then by the kickers, highest first (a pair
\* of Kings beats a pair of Queens on any board).
C10_WithinCategory ==
  sameCategoryShowdown =>
    ev.cmp = sgn(strengthOf(ev.hand1 \o ev.community)
                 - strengthOf(ev.hand2 \o ev.community))


(***************************************************************************)
(* The deck, the bets and the session                                      *)
(***************************************************************************)
\* every card held by a seat, on the board or still in the deck
cardsOfHand(S) ==
  S.playerHand \o S.opponentHands[1] \o S.opponentHands[2] \o S.opponentHands[3]
    \o S.opponentHands[4] \o S.communityCards \o S.deck

fullDeck == {Card(values[v], suits[u]) : v \in DOMAIN values, u \in DOMAIN suits}

noCardTwice(cards) == Cardinality(cardsIn(cards)) = Len(cards)

\* the cards burned before the flop, the turn and the river
burned(S) ==
  CASE S.bettingStage = "pre-flop" -> 0 [] S.bettingStage = "flop" -> 1
    [] S.bettingStage = "turn" -> 2 [] S.bettingStage = "river" -> 3

\* the cards of a hand in progress are cards of the 52-card deck, none is
\* present twice, and together with the burned cards they are all 52
deckIntact ==
  handInProgress =>
    /\ cardsIn(cardsOfHand(st)) \subseteq fullDeck
    /\ noCardTwice(cardsOfHand(st))
    /\ Len(cardsOfHand(st)) + burned(st) = 52

\* what deckIntact reads: the cards and whether a hand is in progress.  No
\* hand is in progress initially, so the cards need looking at only after a
\* step that changes one of these.
dealt(S) ==
  <<S.gameState, S.showCards, S.bettingStage, S.playerHand, S.opponentHands,
    S.communityCards, S.deck>>

\* a step deals a new hand
newHandDealt == Len(st'.deck) = 42 /\ st'.communityCards = <<>>

\* C11: deck integrity. createDeck and shuffleDeck deal the 52 distinct
\* cards: after every step no card is present twice among the hole cards,
\* the community cards and the remaining deck of a hand in progress, and
\* within a hand the deck only shrinks (by the cards burned and dealt).
C11_DeckIntegrity ==
  [][ /\ dealt(st') # dealt(st) => deckIntact'
      /\ handInProgress /\ ~newHandDealt =>
           /\ Len(st'.deck) <= Len(st.deck)
           /\ st'.deck = SubSeq(st.deck, 1, Len(st'.deck)) ]_vars

\* the river of a later hand has been dealt from a shuffled deck
C11_Witness ==
  /\ handInProgress
  /\ st.currentRound >= 2
  /\ st.bettingStage = "river"
  /\ Len(st.communityCards) = 5
  /\ Len(st.deck) = 34
  /\ st.deck # SubSeq(orderedDeck, 1, 34)


\* what seat i has committed this stage (nothing where no amount is recorded)
committed(S, i) == IF isNum(stageBet(S, i)) THEN stageBet(S, i) ELSE 0

\* what a call by seat i moves: the amount owed, or the whole stack if smaller
callMoves(S, i) == jsMin(S.currentBet - committed(S, i), stack(S, i))

\* seat i's call has moved exactly callMoves chips from its stack to the pot
\* (the stack is not looked at when the same step settles the hand)
calledBy(i) ==
  /\ st'.pot = st.pot + callMoves(st, i)
  /\ ~st'.showCards => stack(st', i) = stack(st, i) - callMoves(st, i)

\* C12: a call by the seat to act moves exactly min(currentBet - the seat's
\* committed-this-stage amount, the seat's stack) chips from the seat's stack
\* into the pot, for the human and for every opponent, in every stage.
C12_CallAmount ==
  [][ /\ PlayerCall => calledBy(0)
      /\ (handInProgress /\ OpponentDecides("call")) => calledBy(oa[1].idx + 1) ]_vars


\* the step has raised the current bet to max(2 x the previous one, 20)
raised ==
  /\ st'.currentBet = (IF 2 * st.currentBet > 20 THEN 2 * st.currentBet ELSE 20)
  /\ st'.currentBet > st.currentBet

\* C13: every accepted raise, by the human or by an opponent, sets currentBet
\* to max(2 x previous currentBet, 20), which is strictly greater than the
\* previous currentBet.
C13_RaiseIncreases ==
  [][ (PlayerRaise \/ OpponentDecides("raise")) => raised ]_vars


\* the chips, the bets, the folded flags and the turn pointer
tableOf(S) ==
  <<S.playerChips, S.opponentChips, S.pot, S.currentBet, S.playerBetThisRound,
    S.opponentBetsThisRound, S.foldedPlayers, S.currentPlayer>>

\* the opponent whose decision arrives is not the seat to act, or has folded
outOfTurn ==
  /\ oa # <<>>
  /\ st.currentPlayer # oa[1].idx + 1 \/ folded(st, oa[1].idx + 1)

\* C14: illegal actions do not mutate state. An action of a seat that is not
\* the seat to act, or that has already folded, leaves every stack, the pot,
\* currentBet, the per-stage commitments, the folded flags and the turn
\* pointer unchanged.
C14_IllegalActionsRejected ==
  [][ (outOfTurn /\ st.gameState = "playing" /\ OpponentActionDecide)
        => tableOf(st') = tableOf(st) ]_vars


\* C15: every seat's chip stack is a non-negative integer in every reachable
\* state of a session.
C15_StacksNonNegative ==
  \A i \in Seats : isNum(stack(st, i)) /\ stack(st, i) \in Nat


stageOrder == <<"pre-flop", "flop", "turn", "river">>
stageIndex(stage) == CHOOSE k \in DOMAIN stageOrder : stageOrder[k] = stage

\* the number of community cards of a stage
boardSize(stage) ==
  CASE stage = "pre-flop" -> 0 [] stage = "flop" -> 3
    [] stage = "turn" -> 4 [] stage = "river" -> 5

stageAgrees ==
  st.gameState = "playing" => Len(st.communityCards) = boardSize(st.bettingStage)

\* C16: within a hand bettingStage only moves forward one step at a time and
\* the number of community cards agrees with the stage (0, 3, 4, 5); both
\* are reset only by the start of the next hand.
C16_StageForward ==
  [][ /\ stageAgrees'
      /\ ~newHandDealt =>
           \/ st'.bettingStage = st.bettingStage
              /\ st'.communityCards = st.communityCards
           \/ stageIndex(st'.bettingStage) = stageIndex(st.bettingStage) + 1 ]_vars

\* the river has been reached in the second hand or later
C16_Witness ==
  /\ handInProgress
  /\ st.currentRound >= 2
  /\ st.bettingStage = "river"
  /\ Len(st.communityCards) = 5
  /\ st.currentPlayer = 0


\* the last non-folded seat in seating order is finishing its check: every
\* non-folded seat had committed the current bet when its turn began, and
\* has now
orbitEnds ==
  /\ handInProgress
  /\ inThinking
  /\ oa[1].snap.currentRound = st.currentRound
  /\ oa[1].snap.bettingStage = st.bettingStage
  /\ activeCount(st.foldedPlayers) >= 2
  /\ ~folded(st, oa[1].idx + 1)
  /\ \A i \in activeSet(st) : i <= oa[1].idx + 1
  /\ \A i \in activeSet(st) : committed(oa[1].snap, i) = st.currentBet
  /\ \A i \in activeSet(st) : committed(st, i) = st.currentBet

\* C17: check-through. In a stage whose bets are equal, when every non-folded
\* seat has checked or called on its turn the stage completes after that one
\* orbit: the step that ends the last seat's turn advances the stage or, on
\* the river, goes to the showdown.
C17_CheckThrough ==
  [][ (orbitEnds /\ OpponentActionEnd) =>
        (st'.bettingStage # st.bettingStage \/ st'.showCards) ]_vars


\* the steps of the session's state machine
sessionStep ==
  \/ st'.gameState = st.gameState
  \/ st.gameState = "menu" /\ st'.gameState = "playing"
  \/ st.gameState = "playing" /\ st'.gameState = "gameEnd"
  \/ st.gameState = "gameEnd" /\ st'.gameState = "menu" /\ TryAgain

\* the hand number changes only by one, when the next hand is dealt, or goes
\* back to 1 for a new session
roundStep ==
  \/ st'.currentRound = st.currentRound
  \/ st'.currentRound = st.currentRound + 1 /\ st'.gameState = "playing" /\ newHandDealt
  \/ st'.currentRound = 1 /\ (StartGame \/ TryAgain)

\* when a hand is over, the next one is dealt with the next number, and
\* after the fifth the session ends
dealtInOrder ==
  (NextRoundTimer /\ st.gameState = "playing")
     => IF st.currentRound >= lastRound
        THEN st'.gameState = "gameEnd" /\ st'.currentRound = st.currentRound
        ELSE st'.gameState = "playing" /\ st'.currentRound = st.currentRound + 1

\* C18: a session has at most 5 hands: it moves menu -> playing -> gameEnd and
\* back to menu only by play-again; currentRound starts at 1, goes up by
\* exactly 1 between consecutive hands, never exceeds 5, and after the fifth
\* hand is settled the session ends instead of dealing another hand.
C18_SessionOfFiveHands ==
  [][ /\ st'.currentRound \in 1..lastRound
      /\ sessionStep
      /\ roundStep
      /\ dealtInOrder ]_vars


\* the session ends in this step
sessionEnds == st.gameState = "playing" /\ st'.gameState = "gameEnd"

\* the win message is shown and the write of hiveWon and onWin are scheduled
declaredWinner(S, tm) ==
  /\ S.message = "Game Over! You won"
  /\ \E i \in DOMAIN tm : tm[i].kind = "onWin"

\* the human's stack is strictly greater than each of the four others
strictlyAhead(S) ==
  /\ isNum(S.playerChips)
  /\ \A i \in 1..4 : isNum(S.opponentChips[i]) /\ S.playerChips > S.opponentChips[i]

\* C19: at the end of the session the human is declared the winner (win
\* message, hiveWon written, onWin called) if and only if the human's final
\* stack, with the last hand's pot settled, is strictly greater than the final
\* stack of each of the four other seats; otherwise neither the flag nor
\* onWin is triggered.
C19_WinnerDeclared ==
  [][ sessionEnds => (declaredWinner(st', timers') <=> strictlyAhead(st')) ]_vars


\* an opponent's turn begins in this step: opponentAction calls
\* callLLMWithRetry
turnStarts == oa = <<>> /\ oa' # <<>>

\* what the call that began in snapshot S moves for opponent idx
fallbackCall(S, idx) ==
  jsMin(jsSub(S.currentBet, at(S.opponentBetsThisRound, idx)), at(S.opponentChips, idx))

\* the step applies a fold, a call (or check) or a raise of opponent idx
foldTaken(idx) ==
  st'.foldedPlayers = [st.foldedPlayers EXCEPT ![idx + 2] = TRUE]
callTaken(S, idx) ==
  at(st'.opponentBetsThisRound, idx) =
     jsAdd(at(st.opponentBetsThisRound, idx), fallbackCall(S, idx))
raiseTaken(S, idx) ==
  /\ st'.currentBet = jsMax(S.currentBet * 2, 20)
  /\ at(st'.opponentBetsThisRound, idx) = st'.currentBet
  /\ st'.currentPlayer = 0

\* the turn is decided, and opponentAction goes on to its end
turnCompleted(S, idx) ==
  \/ oa' = <<>> /\ raiseTaken(S, idx)
  \/ /\ oa' # <<>>
     /\ oa'[1].phase = "think"
     /\ foldTaken(idx) \/ callTaken(S, idx)

\* the loop goes on to its next attempt, after a longer wait than before
retried ==
  /\ oa' # <<>>
  /\ oa'[1].phase = "await"
  /\ oa'[1].call.fetches = oa[1].call.fetches + 1
  /\ oa'[1].call.fetches <= retries
  /\ oa'[1].call.backoff = Append(oa[1].call.backoff, 1000 * oa[1].call.fetches)
  /\ st' = st

\* the mock response is used after the last attempt
fellBack ==
  /\ oa[1].call.fetches = retries
  /\ oa[1].call.backoff = <<1000, 2000>>
  /\ turnCompleted(oa[1].snap, oa[1].idx)

\* C20: provider failure never fails the game: without credentials no request
\* is made and the local fallback decides; after a failed request
\* callLLMWithRetry retries, up to 3 attempts with increasing waits, and then
\* uses the local fallback; in each case the opponent's turn is completed
\* with a fold, a call or a raise.
C20_ProviderFailureHandled ==
  [][ /\ (turnStarts /\ ~apiKey)
         => /\ oa'[1].call.fetches = 0
            /\ turnCompleted(oa'[1].snap, oa'[1].idx)
      /\ ProviderFails => (retried \/ fellBack) ]_vars

C20_Witness ==
  /\ oa # <<>>
  /\ oa[1].phase = "think"
  /\ oa[1].result = "mock"
  /\ oa[1].call.fetches = retries
  /\ oa[1].call.backoff = <<1000, 2000>>
  /\ folded(st, oa[1].idx + 1) \/ isNum(at(st.opponentBetsThisRound, oa[1].idx))



(***************************************************************************)
(* The provider's answers and the local fallback                           *)
(***************************************************************************)
\* a request to the provider is in flight
callPending == oa # <<>> /\ oa[1].phase = "await"

\* C21: if the provider does not answer within the fixed timeout the pending
\* call is abandoned and the local fallback decision is applied: no call is
\* still waiting for the provider once its timeout has passed.
C21_TimeoutAbandonsCall ==
  [][ AbortTimer => ~callPending' ]_vars


\* the retries are exhausted: the next failure is answered by the local
\* fallback
fallbackNext == callPending /\ lastAttempt(oa[1].call)

\* C22: whenever the local fallback is used, the action chosen is a pure
\* deterministic function of the game context (hand rank, stack, amount to
\* call, stage, community cards, personality): from one context the fallback
\* can choose one action only.
C22_FallbackDeterministic ==
  fallbackNext => Cardinality(mockActions(oa[1].snap, oa[1].idx)) = 1



(***************************************************************************)
(* One action at a time, one settlement a hand                             *)
(***************************************************************************)
\* an opponent's decision is pending or being applied
opponentActing == oa # <<>>

\* C23: at most one seat's action is in progress at any time: while an
\* opponent's decision is pending or being applied, no human fold, call or
\* raise is applied, no second opponent action starts, and no round-ending or
\* hand-starting step changes chips, pot, bets, folded flags or the turn.
C23_SingleThreadOfControl ==
  [][ opponentActing
        => /\ ~(PlayerFold \/ PlayerCall \/ PlayerRaise)
           /\ ~OpponentActionBegin
           /\ (EndRoundTimer \/ NextRoundTimer) => tableOf(st') = tableOf(st) ]_vars



(***************************************************************************)
(* Stage completion and the blinds                                         *)
(***************************************************************************)
\* a stage completes in this step with more than one seat left
stageAdvances ==
  /\ handInProgress
  /\ activeCount(st.foldedPlayers) >= 2
  /\ st'.gameState = "playing"
  /\ st'.currentRound = st.currentRound
  /\ st'.bettingStage # st.bettingStage
  /\ st'.bettingStage # "pre-flop"

\* the first non-folded seat in seating order
firstSeat(S) == CHOOSE i \in activeSet(S) : \A j \in activeSet(S) : i <= j

\* C24: on stage completion with more than one non-folded seat the per-stage
\* commitment of every seat (the human and the four opponents) is reset to
\* zero and currentBet to 0, the stage advances by one, exactly the next
\* tranche of community cards is dealt (3 for the flop, 1 for the turn, 1 for
\* the river), and the turn is set to the first non-folded seat.
C24_StageCompletionResets ==
  [][ stageAdvances
        => /\ \A i \in Seats : stageBet(st', i) = 0
           /\ st'.currentBet = 0
           /\ stageIndex(st'.bettingStage) = stageIndex(st.bettingStage) + 1
           /\ Len(st'.communityCards) = boardSize(st'.bettingStage)
           /\ SubSeq(st'.communityCards, 1, Len(st.communityCards)) = st.communityCards
           /\ st'.currentPlayer = firstSeat(st') ]_vars


\* the stack seat i brings to the hand that is dealt in this step
stackBefore(i) == IF st.gameState = "menu" THEN startingChips ELSE stack(st, i)

\* what the deal takes from seat i
debited(i) == jsSub(stackBefore(i), stack(st', i))

\* seat sb posts the small blind, seat bb the big blind, nobody else anything
blindsPosted(sb, bb) ==
  \A i \in Seats :
    /\ debited(i) = (IF i = sb THEN smallBlind ELSE IF i = bb THEN bigBlind ELSE 0)
    /\ stageBet(st', i) = debited(i)

\* C25: at the start of each hand exactly two seats are debited forced
\* blinds, the small blind (10) and the big blind (20): right after the
\* blinds the pot is 30, currentBet is 20, and every other seat's stack and
\* per-stage commitment are untouched.
C25_TwoBlinds ==
  [][ (StartGame \/ NextRoundTimer) /\ newHandDealt
        => /\ \E sb, bb \in Seats : sb # bb /\ blindsPosted(sb, bb)
           /\ st'.pot = smallBlind + bigBlind
           /\ st'.currentBet = bigBlind ]_vars



(***************************************************************************)
(* Every outcome of the provider is one of the three actions               *)
(***************************************************************************)
\* this step settles what the opponent in turn does: the provider's result
\* (or the mock response, or the catch block without a request) is applied
turnDecided ==
  IF callPending THEN ~callPending'
  ELSE oa = <<>> /\ oa' # <<>> /\ oa'[1].phase = "think"

\* the opponentAction the step belongs to
deciding == IF callPending THEN oa[1] ELSE oa'[1]

\* C26: for every outcome of the decision provider (valid JSON, malformed or
\* non-JSON text, transport error, missing credentials) the action applied
\* for the opponent's turn is exactly one of fold, call or raise; the turn
\* never goes on to the next seat without one of the three having been
\* applied.
C26_OneOfThreeActions ==
  [][ turnDecided
        => \/ foldTaken(deciding.idx)
           \/ callTaken(deciding.snap, deciding.idx)
           \/ raiseTaken(deciding.snap, deciding.idx) ]_vars



(***************************************************************************)
(* Settlement: once a hand, and never to a folded seat                     *)
(***************************************************************************)
\* the nextRound timers pending among tm
pendingDeals(tm) == {i \in DOMAIN tm : tm[i].kind = "nextRound"}

\* endRound runs in this step: it is what creates a nextRound timer
settlesHand == Cardinality(pendingDeals(timers')) > Cardinality(pendingDeals(timers))

\* C27: in every hand the pot is settled exactly once: endRound runs for a
\* hand in progress that has not been settled, so that one nextRound timer
\* at most is pending, also when the fold of the second-to-last active seat
\* triggers both the delayed endRound of the fold branch and the
\* one-active-seat check of nextPlayer.
C27_SettledOnce ==
  [][ settlesHand
        => /\ handInProgress
           /\ pendingDeals(timers) = {}
           /\ Cardinality(pendingDeals(timers')) = 1 ]_vars


\* the seats credited in this step of a session in play
creditedSeats ==
  {i \in Seats : st.gameState = "playing" /\ jsGt(stack(st', i), stack(st, i))}

\* C28: the pot is never credited to a seat that folded in that hand: the
\* round-ending logic observes every fold made so far, the fold that
\* triggered it included, whether it runs directly, from a timer or from a
\* handler created before the fold was recorded.
C28_NoPotToFoldedSeat ==
  [][ \A i \in creditedSeats : ~folded(st', i) ]_vars



(***************************************************************************)
(* The bookkeeping of the stage, and the evaluator before the flop         *)
(***************************************************************************)
\* C29: for every seat the recorded committed-this-stage amount
\* (playerBetThisRound, opponentBetsThisRound[i] for the four opponents) is
\* at all times a defined non-negative integer, never greater than currentBet.
C29_StageBetsWellFormed ==
  handInProgress
    => \A i \in Seats : /\ isNum(stageBet(st, i))
                        /\ stageBet(st, i) >= 0
                        /\ stageBet(st, i) <= st.currentBet


\* handEval of the opponentAction in progress: the strength of the opponent's
\* hand as opponentAction computes it and hands it to the decision logic
handStrength ==
  evaluateHand(oa[1].snap.opponentHands[oa[1].idx + 1], oa[1].snap.communityCards)

\* an opponent is deciding before the flop, with its two hole cards alone
decidingPreFlop == oa # <<>> /\ oa[1].snap.communityCards = <<>>

\* C30: evaluateHand applied to fewer than 5 cards (pre-flop, the two hole
\* cards alone) never reports a category that needs five cards: two hole
\* cards evaluate only to 'high card' or 'pair', so the hand strength handed
\* to the opponent decision logic pre-flop is never rank 4 or higher.
C30_PreFlopStrength ==
  decidingPreFlop
    => /\ handStrength.name \in {"high card", "pair"}
       /\ handStrength.rank < 4

====
